---- MODULE Spec2Model ----
(***************************************************************************)
(* Model of the NRR calculator service (bhavikcct/nrr-server).             *)
(*                                                                         *)
(* Number representation.  The program computes with IEEE doubles; the     *)
(* model computes the same quantities exactly over the integers:           *)
(*   - an NRR value is carried in thousandths (0.771 is 771),              *)
(*   - an overs quantity is carried in sixths of an over, i.e. in balls    *)
(*     (133 overs 1 ball is 799), so "decimal overs" overs + balls/6 is    *)
(*     the integer 6*overs + balls,                                        *)
(*   - a quotient is never formed: every comparison and truncation of      *)
(*     runs/overs - runs/overs is decided on the exact fraction by staged  *)
(*     integer division (Ratio), which keeps every intermediate product    *)
(*     inside 32 bits.                                                     *)
(***************************************************************************)
EXTENDS Integers, Sequences, FiniteSets

VARIABLES
    pc,                \* position of the request/handler being executed
    teams,             \* standings snapshot: team name -> Team
    order,             \* Object.values(teams) order: sequence of team names
    req,               \* the request body (data), or NoValue
    positionAnalysis,  \* result of analyzePositionFeasibility, or NoValue
    nrrRange,          \* result of calculateRequiredNRRRange, or NoValue
    outcome,           \* what calculateMatchImpact returned or threw, or NoValue
    steps,             \* the service methods executed for the current request
    call,              \* arguments of a direct calculateRevisedNRR call
    ret                \* its result, or NoValue

vars == <<pc, teams, order, req, positionAnalysis, nrrRange, outcome, steps, call, ret>>

NoValue == [none |-> TRUE]

(***************************************************************************)
(* Bounds of the model.                                                    *)
(***************************************************************************)
MaxMatchOvers == 5     \* matchOvers ranges over 1..MaxMatchOvers (whole overs)
MaxRuns == 12          \* runsScored ranges over 0..MaxRuns
HighRuns == 36         \* and one score that cannot be passed inside a single over
MaxWon == 2            \* bounded leagues: won in 0..MaxWon, points = 2 * won
MaxLeagueNrr == 3      \* bounded leagues: nrr in 0..MaxLeagueNrr thousandths
MaxDeltaRuns == 5      \* direct engine calls: run deltas are 10 * (0..MaxDeltaRuns)
MaxDeltaOvers == 2     \* direct engine calls: overs deltas are 5 * (-1..MaxDeltaOvers) overs
MaxBalls == 120        \* direct overs conversions: ball counts 0..MaxBalls
LongMatchOvers == 1000 \* direct engine calls: and the overs of one long match
ProbeMargin == 2       \* NRR values probed: within ProbeMargin thousandths of a team's nrr or of 0

(***************************************************************************)
(* Program constants.                                                      *)
(***************************************************************************)
BallsPerOver == 6          \* overs + balls / 6
Milli == 1000              \* Math.trunc(nrr * 1000) / 1000
MilliStages == <<10, 10, 10>>   \* the factor 1000, applied a digit at a time
Tolerance == 1             \* the 0.000001 tolerance of the batting search, in millionths
Epsilon == 1               \* the 0.001 margin, in thousandths
Unbounded == 999000        \* the sentinel 999, in thousandths
Unset == -999000           \* the sentinel -999, in thousandths
WinPoints == 2             \* points: yourTeam.points + 2
MaxPosition == 5           \* desiredPosition: z.number().int().min(1).max(5)

Min2(a, b) == IF a <= b THEN a ELSE b
Max2(a, b) == IF a >= b THEN a ELSE b

(***************************************************************************)
(* Exact arithmetic on fractions.                                          *)
(* Ratio(x, d, fs) is <<q, r>> with q = floor(x * f1 * ... * fn / d) and   *)
(* r the remainder (r = 0 iff the quotient is an integer), for d # 0.      *)
(***************************************************************************)
RECURSIVE ScaleDiv(_, _, _, _)
ScaleDiv(q, r, d, fs) ==
    IF fs = <<>> THEN <<q, r>>
    ELSE ScaleDiv(q * Head(fs) + ((r * Head(fs)) \div d), (r * Head(fs)) % d, d, Tail(fs))

Ratio(x, d, fs) ==
    IF d > 0 THEN ScaleDiv(x \div d, x % d, d, fs)
    ELSE ScaleDiv((-x) \div (-d), (-x) % (-d), -d, fs)

FloorOf(qr) == qr[1]
CeilOf(qr) == IF qr[2] = 0 THEN qr[1] ELSE qr[1] + 1
\* a truncation that floors instead (differs on negative values)
TruncFloor(qr) == qr[1]
\* Math.trunc: toward zero
TruncOf(qr) == IF qr[1] < 0 /\ qr[2] # 0 THEN qr[1] + 1 ELSE qr[1]

(***************************************************************************)
(* Overs arithmetic (utils/nrr-calculate.ts).                              *)
(***************************************************************************)
\* convertOversToDecimal(overs, balls) = overs + balls / 6, in sixths
convertOversToDecimal(overs, balls) == BallsPerOver * overs + balls

\* convertOversToDecimal(team.forOvers) on an Overs object
OversDecimal(o) == convertOversToDecimal(o.overs, o.balls)

\* JavaScript's a % b for b > 0: the remainder takes the sign of a
JsRem(a, b) == IF a >= 0 THEN a % b ELSE -((-a) % b)

\* a decomposition that rounds the overs to the nearest instead of flooring
ballsToOversDecimalRounded(balls) ==
    LET completeOvers == (balls + 3) \div BallsPerOver
        remainingBalls == JsRem(balls, BallsPerOver)
    IN  convertOversToDecimal(completeOvers, remainingBalls)

\* ballsToOversDecimal(balls)
ballsToOversDecimal(balls) ==
    LET completeOvers == balls \div BallsPerOver          \* Math.floor(balls / 6)
        remainingBalls == JsRem(balls, BallsPerOver)
    IN  convertOversToDecimal(completeOvers, remainingBalls)

\* a numeral whose ball digit runs from 1 to 6: the sixth ball is not carried
ballsToOversDisplayNoCarry(balls) ==
    IF balls <= 0 THEN [overs |-> 0, balls |-> 0]
    ELSE [overs |-> (balls - 1) \div BallsPerOver, balls |-> ((balls - 1) % BallsPerOver) + 1]

\* ballsToOversDisplay(balls) = parseFloat(`${completeOvers}.${remainingBalls}`):
\* the numeral overs.balls, kept as its two digit groups (parseFloat stops at
\* the sign of a negative remainder)
ballsToOversDisplay(balls) ==
    [overs |-> balls \div BallsPerOver,
     balls |-> IF JsRem(balls, BallsPerOver) < 0 THEN 0 ELSE JsRem(balls, BallsPerOver)]

(***************************************************************************)
(* Run-Rate Engine (utils/nrr-calculate.ts, calculateRevisedNRR).          *)
(* newForOvers and newAgainstOvers are in sixths of an over.               *)
(***************************************************************************)
\* numerator and denominator of
\*   totalForRuns / totalForOvers - totalAgainstRuns / totalAgainstOvers
\* as the exact fraction 6 * NrrNum / NrrDen
\* the two rates added instead of subtracted
NrrNumSum(team, newForRuns, newForOvers, newAgainstRuns, newAgainstOvers) ==
    LET totalForRuns == team.forRuns + newForRuns
        totalForOvers == OversDecimal(team.forOvers) + newForOvers
        totalAgainstRuns == team.againstRuns + newAgainstRuns
        totalAgainstOvers == OversDecimal(team.againstOvers) + newAgainstOvers
    IN  totalForRuns * totalAgainstOvers + totalAgainstRuns * totalForOvers

NrrNum(team, newForRuns, newForOvers, newAgainstRuns, newAgainstOvers) ==
    LET totalForRuns == team.forRuns + newForRuns
        totalForOvers == OversDecimal(team.forOvers) + newForOvers
        totalAgainstRuns == team.againstRuns + newAgainstRuns
        totalAgainstOvers == OversDecimal(team.againstOvers) + newAgainstOvers
    IN  totalForRuns * totalAgainstOvers - totalAgainstRuns * totalForOvers

NrrDen(team, newForOvers, newAgainstOvers) ==
    (OversDecimal(team.forOvers) + newForOvers)
        * (OversDecimal(team.againstOvers) + newAgainstOvers)

\* a guard that lets a zero total through
OversGuardStrict(totalForOvers, totalAgainstOvers) ==
    totalForOvers < 0 \/ totalAgainstOvers < 0

\* if (totalForOvers <= 0 || totalAgainstOvers <= 0) throw
OversGuard(totalForOvers, totalAgainstOvers) ==
    totalForOvers <= 0 \/ totalAgainstOvers <= 0

calculateRevisedNRR(team, newForRuns, newForOvers, newAgainstRuns, newAgainstOvers) ==
    LET totalForOvers == OversDecimal(team.forOvers) + newForOvers
        totalAgainstOvers == OversDecimal(team.againstOvers) + newAgainstOvers
    IN  IF OversGuard(totalForOvers, totalAgainstOvers)
        THEN [threw |-> TRUE, error |-> "Total overs must be greater than 0"]
        ELSE IF NrrDen(team, newForOvers, newAgainstOvers) = 0
        THEN [threw |-> FALSE, nrr |-> "NaN"]      \* a division by zero does not throw
        ELSE [threw |-> FALSE,
              nrr |-> TruncOf(Ratio(
                         NrrNum(team, newForRuns, newForOvers, newAgainstRuns, newAgainstOvers),
                         NrrDen(team, newForOvers, newAgainstOvers),
                         <<BallsPerOver>> \o MilliStages))]

(***************************************************************************)
(* Standings snapshot (utils/nrr-calculate.ts, getInitialData).            *)
(***************************************************************************)
CSK == "Chennai Super Kings"
RCB == "Royal Challengers Bangalore"
DC == "Delhi Capitals"
RR == "Rajasthan Royals"
MI == "Mumbai Indians"

\* insertion order of the record returned by getInitialData
TeamOrder == <<CSK, RCB, DC, RR, MI>>

TeamNames == {TeamOrder[i] : i \in 1..Len(TeamOrder)}

Overs(o, b) == [overs |-> o, balls |-> b]

getInitialData ==
    [n \in TeamNames |->
        CASE n = CSK -> [name |-> CSK, matches |-> 7, won |-> 5, lost |-> 2, nrr |-> 771,
                         forRuns |-> 1130, forOvers |-> Overs(133, 1),
                         againstRuns |-> 1071, againstOvers |-> Overs(138, 5), points |-> 10]
          [] n = RCB -> [name |-> RCB, matches |-> 7, won |-> 4, lost |-> 3, nrr |-> 597,
                         forRuns |-> 1217, forOvers |-> Overs(140, 0),
                         againstRuns |-> 1066, againstOvers |-> Overs(131, 4), points |-> 8]
          [] n = DC  -> [name |-> DC, matches |-> 7, won |-> 4, lost |-> 3, nrr |-> 319,
                         forRuns |-> 1085, forOvers |-> Overs(126, 0),
                         againstRuns |-> 1136, againstOvers |-> Overs(137, 0), points |-> 8]
          [] n = RR  -> [name |-> RR, matches |-> 7, won |-> 3, lost |-> 4, nrr |-> 331,
                         forRuns |-> 1066, forOvers |-> Overs(128, 2),
                         againstRuns |-> 1094, againstOvers |-> Overs(137, 1), points |-> 6]
          [] n = MI  -> [name |-> MI, matches |-> 8, won |-> 2, lost |-> 6, nrr |-> -1750,
                         forRuns |-> 1003, forOvers |-> Overs(155, 2),
                         againstRuns |-> 1134, againstOvers |-> Overs(138, 1), points |-> 4]]

(***************************************************************************)
(* Sequences of teams: Object.values, filter, map, sort.                   *)
(***************************************************************************)
\* Object.values(allTeams)
Values(allTeams, names) == [i \in 1..Len(names) |-> allTeams[names[i]]]

RECURSIVE FilterSeq(_, _)
\* s.filter(keep), keep given as the set of elements kept
FilterSeq(s, keep) ==
    IF s = <<>> THEN <<>>
    ELSE IF Head(s) \in keep THEN <<Head(s)>> \o FilterSeq(Tail(s), keep)
         ELSE FilterSeq(Tail(s), keep)

Elems(s) == {s[i] : i \in 1..Len(s)}

\* comparator (a, b) => b.points - a.points || b.nrr - a.nrr  is negative
ByPointsThenNrr(a, b) ==
    IF b.points # a.points THEN b.points - a.points < 0 ELSE b.nrr - a.nrr < 0

\* comparator (a, b) => b.nrr - a.nrr  is negative
ByNrr(a, b) == b.nrr - a.nrr < 0

Before(a, b, byPoints) == IF byPoints THEN ByPointsThenNrr(a, b) ELSE ByNrr(a, b)

\* x placed in the sorted sequence s after every element it does not precede
InsertSorted(x, s, byPoints) ==
    LET firstAfter == IF \E i \in 1..Len(s) : Before(x, s[i], byPoints)
                      THEN CHOOSE i \in 1..Len(s) :
                               /\ Before(x, s[i], byPoints)
                               /\ \A j \in 1..(i - 1) : ~Before(x, s[j], byPoints)
                      ELSE Len(s) + 1
    IN  SubSeq(s, 1, firstAfter - 1) \o <<x>> \o SubSeq(s, firstAfter, Len(s))

RECURSIVE SortTeams(_, _)
\* Array.prototype.sort with the comparator: a stable sort
SortTeams(s, byPoints) ==
    IF s = <<>> THEN <<>>
    ELSE InsertSorted(s[Len(s)], SortTeams(SubSeq(s, 1, Len(s) - 1), byPoints), byPoints)

\* sortedTeams.findIndex(team => team.name === name) + 1
PositionOf(sorted, name) ==
    IF \E i \in 1..Len(sorted) : sorted[i].name = name
    THEN CHOOSE i \in 1..Len(sorted) :
             sorted[i].name = name /\ \A j \in 1..(i - 1) : sorted[j].name # name
    ELSE 0

\* Math.max(...s.map(t => t.nrr)) for a non-empty s
MaxNrr(s) == CHOOSE v \in {s[i].nrr : i \in 1..Len(s)} : \A i \in 1..Len(s) : s[i].nrr <= v

(***************************************************************************)
(* calculateMatchImpact: the hypothetical post-match copies.               *)
(***************************************************************************)
\* yourTeamAfterWin
AfterWin(t) ==
    [t EXCEPT !.matches = @ + 1, !.won = @ + 1, !.points = @ + WinPoints]

\* opponentTeamAfterLoss
AfterLoss(t) == [t EXCEPT !.matches = @ + 1, !.lost = @ + 1]

(***************************************************************************)
(* Feasibility Analyzer (NRRService.analyzePositionFeasibility).           *)
(***************************************************************************)
\* teamsAfterYourWin
TeamsAfterYourWin(yourTeamAfterWin, allTeams, names, yourTeamName, opponentTeamName) ==
    LET teamsArray == Values(allTeams, names)
    IN  [i \in 1..Len(teamsArray) |->
            IF teamsArray[i].name = yourTeamName THEN yourTeamAfterWin
            ELSE IF teamsArray[i].name = opponentTeamName THEN AfterLoss(teamsArray[i])
            ELSE teamsArray[i]]

\* a comparison that counts level teams among those with more points
MorePointsOrLevel(team, yourTeamAfterWin) == team.points >= yourTeamAfterWin.points

\* team.points > yourTeamAfterWin.points
MorePoints(team, yourTeamAfterWin) == team.points > yourTeamAfterWin.points

\* a filter that forgets to leave yourTeam out
TeamsWithSamePointsAndYou(teamsAfterYourWin, yourTeamAfterWin, yourTeamName) ==
    FilterSeq(teamsAfterYourWin,
              {t \in Elems(teamsAfterYourWin) : t.points = yourTeamAfterWin.points})

\* teamsWithSamePointsAfterWin
TeamsWithSamePointsAfterWin(teamsAfterYourWin, yourTeamAfterWin, yourTeamName) ==
    FilterSeq(teamsAfterYourWin,
              {t \in Elems(teamsAfterYourWin) :
                  t.points = yourTeamAfterWin.points /\ t.name # yourTeamName})

\* teamsWithMorePointsAfterWin
TeamsWithMorePointsAfterWin(teamsAfterYourWin, yourTeamAfterWin) ==
    FilterSeq(teamsAfterYourWin,
              {t \in Elems(teamsAfterYourWin) : MorePoints(t, yourTeamAfterWin)})

\* bestPossiblePosition
BestPossiblePosition(teamsAfterYourWin, yourTeamAfterWin) ==
    Len(TeamsWithMorePointsAfterWin(teamsAfterYourWin, yourTeamAfterWin)) + 1

\* worstPossiblePosition
WorstPossiblePosition(teamsAfterYourWin, yourTeamAfterWin, yourTeamName) ==
    Len(TeamsWithMorePointsAfterWin(teamsAfterYourWin, yourTeamAfterWin))
        + Len(TeamsWithSamePointsAfterWin(teamsAfterYourWin, yourTeamAfterWin, yourTeamName))
        + 1

analyzePositionFeasibility(yourTeamAfterWin, allTeams, names, desiredPosition, yourTeamName, opponentTeamName) ==
    LET teamsAfterYourWin ==
            TeamsAfterYourWin(yourTeamAfterWin, allTeams, names, yourTeamName, opponentTeamName)
        teamsWithSamePointsAfterWin ==
            TeamsWithSamePointsAfterWin(teamsAfterYourWin, yourTeamAfterWin, yourTeamName)
        bestPossiblePosition == BestPossiblePosition(teamsAfterYourWin, yourTeamAfterWin)
        worstPossiblePosition ==
            WorstPossiblePosition(teamsAfterYourWin, yourTeamAfterWin, yourTeamName)
        samePointNames ==
            [i \in 1..Len(teamsWithSamePointsAfterWin) |-> teamsWithSamePointsAfterWin[i].name]
    IN  IF desiredPosition < bestPossiblePosition
        THEN [achievable |-> FALSE, reason |-> "best possible position",
              bound |-> bestPossiblePosition, teamsWithSamePoints |-> samePointNames]
        ELSE IF desiredPosition > worstPossiblePosition
        THEN [achievable |-> FALSE, reason |-> "worst possible position",
              bound |-> worstPossiblePosition, teamsWithSamePoints |-> samePointNames]
        ELSE [achievable |-> TRUE, reason |-> "", bound |-> 0,
              teamsWithSamePoints |-> samePointNames]

(***************************************************************************)
(* NRR Bracket Solver (NRRService.calculateRequiredNRRRange).              *)
(***************************************************************************)
\* otherTeams, then sortedOtherTeams
SortedOtherTeams(allTeams, names, yourTeamName, opponentTeamName) ==
    LET teamsArray == Values(allTeams, names)
        filtered == FilterSeq(teamsArray, {t \in Elems(teamsArray) : t.name # yourTeamName})
        otherTeams == [i \in 1..Len(filtered) |->
                          IF filtered[i].name = opponentTeamName
                          THEN AfterLoss(filtered[i]) ELSE filtered[i]]
    IN  SortTeams(otherTeams, TRUE)

\* a lower bound that ignores the teams with fewer points
MinFromFewerPointsIgnored(sortedOtherTeams, yourTeamAfterWin) == Epsilon

\* the branch taken when no same-points team is left below yourTeam:
\* highest NRR among the teams with fewer points + 0.001, or 0.001
MinFromFewerPoints(sortedOtherTeams, yourTeamAfterWin) ==
    LET teamsWithFewerPoints ==
            FilterSeq(sortedOtherTeams,
                      {t \in Elems(sortedOtherTeams) : t.points < yourTeamAfterWin.points})
    IN  IF Len(teamsWithFewerPoints) > 0
        THEN MaxNrr(teamsWithFewerPoints) + Epsilon
        ELSE Epsilon

\* an upper bound taken from the best same-points team, whichever one is to stay above
MaxFromSamePointsTop(sortedSamePointTeams, samePointTeamsAbove, current) ==
    IF samePointTeamsAbove > 0 /\ samePointTeamsAbove <= Len(sortedSamePointTeams)
    THEN sortedSamePointTeams[1].nrr - Epsilon
    ELSE current

\* an upper bound with the margin added instead of subtracted
MaxFromSamePointsPlus(sortedSamePointTeams, samePointTeamsAbove, current) ==
    IF samePointTeamsAbove > 0 /\ samePointTeamsAbove <= Len(sortedSamePointTeams)
    THEN sortedSamePointTeams[samePointTeamsAbove].nrr + Epsilon
    ELSE current

\* if (samePointTeamsAbove > 0 && samePointTeamsAbove <= length)
\*     maxAllowedNRR = sortedSamePointTeams[samePointTeamsAbove - 1].nrr - 0.001
MaxFromSamePoints(sortedSamePointTeams, samePointTeamsAbove, current) ==
    IF samePointTeamsAbove > 0 /\ samePointTeamsAbove <= Len(sortedSamePointTeams)
    THEN sortedSamePointTeams[samePointTeamsAbove].nrr - Epsilon
    ELSE current

\* maxAllowedNRR = sortedOtherTeams[desiredPosition - 2]?.nrr - 0.001 || 999
\* (undefined - 0.001 is NaN, and NaN and 0 are both falsy)
FallbackMax(sortedOtherTeams, desiredPosition) ==
    IF desiredPosition - 1 \in 1..Len(sortedOtherTeams)
    THEN IF sortedOtherTeams[desiredPosition - 1].nrr - Epsilon = 0
         THEN Unbounded
         ELSE sortedOtherTeams[desiredPosition - 1].nrr - Epsilon
    ELSE Unbounded

\* a validity test that lets an empty bracket through
InvalidRangeNever(minRequiredNRR, maxAllowedNRR) == FALSE

\* if (minRequiredNRR >= maxAllowedNRR && maxAllowedNRR !== 999) throw
InvalidRange(minRequiredNRR, maxAllowedNRR) ==
    minRequiredNRR >= maxAllowedNRR /\ maxAllowedNRR # Unbounded

calculateRequiredNRRRange(yourTeamAfterWin, allTeams, names, desiredPosition, yourTeamName, opponentTeamName) ==
    LET sortedOtherTeams == SortedOtherTeams(allTeams, names, yourTeamName, opponentTeamName)
        teamsWithSamePoints ==
            FilterSeq(sortedOtherTeams,
                      {t \in Elems(sortedOtherTeams) : t.points = yourTeamAfterWin.points})
        sortedSamePointTeams == SortTeams(teamsWithSamePoints, FALSE)
        teamsAbove == desiredPosition - 1
        teamsWithMorePoints ==
            Len(FilterSeq(sortedOtherTeams,
                          {t \in Elems(sortedOtherTeams) : t.points > yourTeamAfterWin.points}))
        samePointTeamsAbove == teamsAbove - teamsWithMorePoints
        \* sortedSamePointTeams[samePointTeamsAbove] with a negative index is undefined,
        \* and reading .nrr of it throws a TypeError
        typeError == Len(teamsWithSamePoints) # 0 /\ samePointTeamsAbove < 0
        max1 == IF Len(teamsWithSamePoints) = 0 THEN Unbounded
                ELSE MaxFromSamePoints(sortedSamePointTeams, samePointTeamsAbove, Unbounded)
        min1 == IF Len(teamsWithSamePoints) = 0
                THEN MinFromFewerPoints(sortedOtherTeams, yourTeamAfterWin)
                ELSE IF samePointTeamsAbove < Len(sortedSamePointTeams)
                THEN sortedSamePointTeams[samePointTeamsAbove + 1].nrr + Epsilon
                ELSE MinFromFewerPoints(sortedOtherTeams, yourTeamAfterWin)
        max2 == IF desiredPosition = 1 THEN Unbounded ELSE max1
        min2 == IF min1 = Unset THEN Epsilon ELSE min1
        max3 == IF max2 = Unbounded /\ desiredPosition > 1
                THEN FallbackMax(sortedOtherTeams, desiredPosition)
                ELSE max2
    IN  IF typeError
        THEN [status |-> "TypeError"]
        ELSE IF InvalidRange(min2, max3)
        THEN [status |-> "Required NRR range is invalid"]
        ELSE [status |-> "ok", minNRR |-> min2, maxNRR |-> max3]

(***************************************************************************)
(* Outcome Search, batting first (NRRService.computeRestrictOpponentRuns). *)
(* matchOvers is in whole overs, as in the request.                        *)
(***************************************************************************)
\* the engine's value where the caller has made sure it does not throw
RevisedNRR(team, newForRuns, newForOvers, newAgainstRuns, newAgainstOvers) ==
    calculateRevisedNRR(team, newForRuns, newForOvers, newAgainstRuns, newAgainstOvers).nrr

\* v >= minRequiredNRR && (maxAllowedNRR === 999 || v <= maxAllowedNRR) on an engine value
InBracket(v, minRequiredNRR, maxAllowedNRR) ==
    v >= minRequiredNRR /\ (maxAllowedNRR = Unbounded \/ v <= maxAllowedNRR)

\* the loop's test with the engine's truncated value in place of the inline quotient
AcceptsByEngine(yourTeam, matchOvers, yourScore, opponentRuns, minRequiredNRR, maxAllowedNRR) ==
    InBracket(RevisedNRR(yourTeam, yourScore, convertOversToDecimal(matchOvers, 0),
                         opponentRuns, convertOversToDecimal(matchOvers, 0)),
              minRequiredNRR, maxAllowedNRR)

\* the loop's test on the inline, untruncated
\*   yourNRR = totalForRuns / totalForOvers - totalAgainstRuns / totalAgainstOvers:
\*   yourNRR >= minRequiredNRR &&
\*   (maxAllowedNRR === 999 || yourNRR <= maxAllowedNRR + 0.000001)
Accepts(yourTeam, matchOvers, yourScore, opponentRuns, minRequiredNRR, maxAllowedNRR) ==
    LET mo == convertOversToDecimal(matchOvers, 0)
        num == NrrNum(yourTeam, yourScore, mo, opponentRuns, mo)
        den == NrrDen(yourTeam, mo, mo)
    IN  /\ FloorOf(Ratio(num, den, <<BallsPerOver, Milli>>)) >= minRequiredNRR
        /\ \/ maxAllowedNRR = Unbounded
           \/ CeilOf(Ratio(num, den, <<BallsPerOver, Milli, Milli>>))
                  <= Milli * maxAllowedNRR + Tolerance

RECURSIVE RestrictLoopInclusive(_, _, _, _, _, _, _)
\* a loop that also tries the opponent score equal to yourScore
RestrictLoopInclusive(yourTeam, matchOvers, yourScore, minRequiredNRR, maxAllowedNRR, opponentRuns, st) ==
    IF opponentRuns > yourScore THEN st
    ELSE RestrictLoopInclusive(yourTeam, matchOvers, yourScore, minRequiredNRR, maxAllowedNRR,
             opponentRuns + 1, [st EXCEPT !.iterations = @ + 1])

RECURSIVE RestrictLoop(_, _, _, _, _, _, _)
\* for (opponentRuns = 0; opponentRuns <= maxPossibleOpponentRuns; opponentRuns++)
\* st = [restrictRunsMin, restrictRunsMax, iterations]
RestrictLoop(yourTeam, matchOvers, yourScore, minRequiredNRR, maxAllowedNRR, opponentRuns, st) ==
    IF opponentRuns > yourScore - 1 THEN st
    ELSE RestrictLoop(yourTeam, matchOvers, yourScore, minRequiredNRR, maxAllowedNRR,
             opponentRuns + 1,
             IF Accepts(yourTeam, matchOvers, yourScore, opponentRuns,
                        minRequiredNRR, maxAllowedNRR)
             THEN [restrictRunsMin |-> IF st.restrictRunsMin = -1 THEN opponentRuns
                                       ELSE st.restrictRunsMin,
                   restrictRunsMax |-> opponentRuns,
                   iterations |-> st.iterations + 1]
             ELSE [st EXCEPT !.iterations = @ + 1])

\* a search that reports the two boundary values the wrong way round
computeRestrictOpponentRunsSwapped(yourTeam, matchOvers, yourScore, minRequiredNRR, maxAllowedNRR) ==
    LET mo == convertOversToDecimal(matchOvers, 0)
        loop == RestrictLoop(yourTeam, matchOvers, yourScore, minRequiredNRR, maxAllowedNRR, 0,
                             [restrictRunsMin |-> -1, restrictRunsMax |-> -1, iterations |-> 0])
    IN  [restrictRunsMin |-> IF loop.restrictRunsMin = -1 THEN 0 ELSE loop.restrictRunsMin,
         restrictRunsMax |-> IF loop.restrictRunsMin = -1 THEN yourScore - 1
                             ELSE loop.restrictRunsMax,
         revisedNRRMin |-> RevisedNRR(yourTeam, yourScore, mo,
                               IF loop.restrictRunsMin = -1 THEN 0 ELSE loop.restrictRunsMin, mo),
         revisedNRRMax |-> RevisedNRR(yourTeam, yourScore, mo,
                               IF loop.restrictRunsMin = -1 THEN yourScore - 1
                               ELSE loop.restrictRunsMax, mo),
         impossible |-> loop.restrictRunsMin = -1,
         iterations |-> loop.iterations,
         engineCalls |-> {IF loop.restrictRunsMin = -1 THEN 0 ELSE loop.restrictRunsMin,
                          IF loop.restrictRunsMin = -1 THEN yourScore - 1
                          ELSE loop.restrictRunsMax}]

\* iterations counts the loop's trips and engineCalls holds the opponent scores
\* handed to calculateRevisedNRR; they are not fields of the returned object
computeRestrictOpponentRuns(yourTeam, matchOvers, yourScore, minRequiredNRR, maxAllowedNRR) ==
    LET mo == convertOversToDecimal(matchOvers, 0)
        maxPossibleOpponentRuns == yourScore - 1
        loop == RestrictLoop(yourTeam, matchOvers, yourScore, minRequiredNRR, maxAllowedNRR, 0,
                             [restrictRunsMin |-> -1, restrictRunsMax |-> -1, iterations |-> 0])
    IN  IF loop.restrictRunsMin = -1
        THEN [restrictRunsMin |-> 0,
              restrictRunsMax |-> maxPossibleOpponentRuns,
              revisedNRRMin |-> RevisedNRR(yourTeam, yourScore, mo, maxPossibleOpponentRuns, mo),
              revisedNRRMax |-> RevisedNRR(yourTeam, yourScore, mo, 0, mo),
              impossible |-> TRUE,
              iterations |-> loop.iterations,
              engineCalls |-> {0, maxPossibleOpponentRuns}]
        ELSE [restrictRunsMin |-> loop.restrictRunsMin,
              restrictRunsMax |-> loop.restrictRunsMax,
              revisedNRRMin |-> RevisedNRR(yourTeam, yourScore, mo, loop.restrictRunsMax, mo),
              revisedNRRMax |-> RevisedNRR(yourTeam, yourScore, mo, loop.restrictRunsMin, mo),
              impossible |-> FALSE,
              iterations |-> loop.iterations,
              engineCalls |-> {loop.restrictRunsMax, loop.restrictRunsMin}]

(***************************************************************************)
(* Outcome Search, chasing (NRRService.computeChaseOversToBeatNRR).        *)
(***************************************************************************)

\* const overs = ballsToOversDecimal(adjustedMinBalls): the overs argument the
\* search hands to the engine for a ball count
ChaseOvers(balls) == ballsToOversDecimal(balls)

\* NRR of winning with yourScore off `balls` balls against targetScore in matchOvers
ChaseNRR(yourTeam, matchOvers, targetScore, balls) ==
    RevisedNRR(yourTeam, targetScore + 1, ChaseOvers(balls),
               targetScore, convertOversToDecimal(matchOvers, 0))

\* (totalForRuns / (bound + runRateAgainst) - convertOversToDecimal(yourTeam.forOvers)) * 6,
\* as <<floor, remainder>>, where
\*   runRateAgainst = (againstRuns + targetScore) / (againstOvers + matchOvers);
\* bound + runRateAgainst is positive for every bracket of the snapshot
AlgebraicBalls(yourTeam, matchOvers, targetScore, bound) ==
    LET againstRuns == yourTeam.againstRuns + targetScore
        againstOvers == OversDecimal(yourTeam.againstOvers) + convertOversToDecimal(matchOvers, 0)
        totalForRuns == yourTeam.forRuns + targetScore + 1
        den == bound * againstOvers + Milli * BallsPerOver * againstRuns
        qr == Ratio(totalForRuns * againstOvers, den, <<BallsPerOver>> \o MilliStages)
    IN  <<qr[1] - OversDecimal(yourTeam.forOvers), qr[2]>>

RECURSIVE ScanUp(_, _, _, _, _, _, _)
\* while (adjustedMinBalls <= adjustedMaxBalls) { if (in bracket) break; adjustedMinBalls++ }
ScanUp(yourTeam, matchOvers, targetScore, minRequiredNRR, maxAllowedNRR, adjustedMinBalls, adjustedMaxBalls) ==
    IF adjustedMinBalls <= adjustedMaxBalls
       /\ ~(/\ ChaseNRR(yourTeam, matchOvers, targetScore, adjustedMinBalls) <= maxAllowedNRR
            /\ ChaseNRR(yourTeam, matchOvers, targetScore, adjustedMinBalls) >= minRequiredNRR)
    THEN ScanUp(yourTeam, matchOvers, targetScore, minRequiredNRR, maxAllowedNRR,
                adjustedMinBalls + 1, adjustedMaxBalls)
    ELSE adjustedMinBalls

RECURSIVE ScanDown(_, _, _, _, _, _)
\* while (adjustedMaxBalls >= adjustedMinBalls) { if (nrr >= min) break; adjustedMaxBalls-- }
ScanDown(yourTeam, matchOvers, targetScore, minRequiredNRR, adjustedMinBalls, adjustedMaxBalls) ==
    IF adjustedMaxBalls >= adjustedMinBalls
       /\ ~(ChaseNRR(yourTeam, matchOvers, targetScore, adjustedMaxBalls) >= minRequiredNRR)
    THEN ScanDown(yourTeam, matchOvers, targetScore, minRequiredNRR, adjustedMinBalls,
                  adjustedMaxBalls - 1)
    ELSE adjustedMaxBalls

RECURSIVE ScanUpTrips(_, _, _, _, _, _, _)
\* the trips the first while loop makes through its body
ScanUpTrips(yourTeam, matchOvers, targetScore, minRequiredNRR, maxAllowedNRR, adjustedMinBalls, adjustedMaxBalls) ==
    IF ~(adjustedMinBalls <= adjustedMaxBalls) THEN 0
    ELSE IF /\ ChaseNRR(yourTeam, matchOvers, targetScore, adjustedMinBalls) <= maxAllowedNRR
            /\ ChaseNRR(yourTeam, matchOvers, targetScore, adjustedMinBalls) >= minRequiredNRR
    THEN 1
    ELSE 1 + ScanUpTrips(yourTeam, matchOvers, targetScore, minRequiredNRR, maxAllowedNRR,
                         adjustedMinBalls + 1, adjustedMaxBalls)

RECURSIVE ScanDownTrips(_, _, _, _, _, _)
\* the trips the second while loop makes through its body
ScanDownTrips(yourTeam, matchOvers, targetScore, minRequiredNRR, adjustedMinBalls, adjustedMaxBalls) ==
    IF ~(adjustedMaxBalls >= adjustedMinBalls) THEN 0
    ELSE IF ChaseNRR(yourTeam, matchOvers, targetScore, adjustedMaxBalls) >= minRequiredNRR
    THEN 1
    ELSE 1 + ScanDownTrips(yourTeam, matchOvers, targetScore, minRequiredNRR,
                           adjustedMinBalls, adjustedMaxBalls - 1)

\* an impossibility test that ignores the tie outcome
ChaseImpossibleNoTie(minBalls, adjustedMaxBalls, tieNRR, minRequiredNRR, maxAllowedNRR) ==
    minBalls > adjustedMaxBalls

\* minBalls > adjustedMaxBalls &&
\* (tieNRR === null || tieNRR < minRequiredNRR || tieNRR > maxAllowedNRR)
ChaseImpossible(minBalls, adjustedMaxBalls, tieNRR, minRequiredNRR, maxAllowedNRR) ==
    /\ minBalls > adjustedMaxBalls
    /\ (tieNRR < minRequiredNRR \/ tieNRR > maxAllowedNRR)

\* a guard that lets every target through
CannotScoreNever(minBallsRequired, maxBalls) == FALSE

\* if (minBallsRequired > maxBalls) throw
CannotScore(minBallsRequired, maxBalls) == minBallsRequired > maxBalls

computeChaseOversToBeatNRR(yourTeam, matchOvers, targetScore, minRequiredNRR, maxAllowedNRR) ==
    LET mo == convertOversToDecimal(matchOvers, 0)
        maxBalls == mo                                     \* Math.floor(matchOvers * 6)
        yourScore == targetScore + 1
        minBallsRequired == CeilOf(Ratio(yourScore, BallsPerOver, <<>>))
        maxOvers6 == AlgebraicBalls(yourTeam, matchOvers, targetScore, minRequiredNRR)
        minOvers6 == IF maxAllowedNRR = Unbounded THEN <<0, 0>>
                     ELSE AlgebraicBalls(yourTeam, matchOvers, targetScore, maxAllowedNRR)
        minBalls == Max2(CeilOf(minOvers6), minBallsRequired)
        adjustedMaxBalls0 == Min2(FloorOf(maxOvers6), maxBalls)
        tieNRR == RevisedNRR(yourTeam, targetScore, mo, targetScore, mo)
        adjustedMinBalls == ScanUp(yourTeam, matchOvers, targetScore, minRequiredNRR,
                                   maxAllowedNRR, minBalls, adjustedMaxBalls0)
        adjustedMaxBalls == ScanDown(yourTeam, matchOvers, targetScore, minRequiredNRR,
                                     adjustedMinBalls, adjustedMaxBalls0)
        \* upTrips, downTrips count the loops' trips; they are not fields of the
        \* returned object
        upTrips == ScanUpTrips(yourTeam, matchOvers, targetScore, minRequiredNRR,
                               maxAllowedNRR, minBalls, adjustedMaxBalls0)
        downTrips == ScanDownTrips(yourTeam, matchOvers, targetScore, minRequiredNRR,
                                   adjustedMinBalls, adjustedMaxBalls0)
    IN  IF CannotScore(minBallsRequired, maxBalls)
        THEN [threw |-> TRUE, error |-> "Cannot score"]
        ELSE IF ChaseImpossible(minBalls, adjustedMaxBalls0, tieNRR, minRequiredNRR, maxAllowedNRR)
        THEN [threw |-> FALSE,
              minOvers |-> ballsToOversDisplay(minBallsRequired),
              maxOvers |-> ballsToOversDisplay(maxBalls),
              revisedNRRMin |-> RevisedNRR(yourTeam, yourScore, mo, targetScore, mo),
              revisedNRRMax |-> ChaseNRR(yourTeam, matchOvers, targetScore, minBallsRequired),
              impossible |-> TRUE,
              tieQualifies |-> FALSE,
              upTrips |-> 0,
              downTrips |-> 0]
        ELSE [threw |-> FALSE,
              minOvers |-> ballsToOversDisplay(adjustedMinBalls),
              maxOvers |-> ballsToOversDisplay(adjustedMaxBalls),
              revisedNRRMin |-> ChaseNRR(yourTeam, matchOvers, targetScore, adjustedMaxBalls),
              revisedNRRMax |-> ChaseNRR(yourTeam, matchOvers, targetScore, adjustedMinBalls),
              impossible |-> FALSE,
              \* the message names the tie when it is inside the bracket
              tieQualifies |-> InBracket(tieNRR, minRequiredNRR, maxAllowedNRR),
              upTrips |-> upTrips,
              downTrips |-> downTrips]

(***************************************************************************)
(* Requests (schema/match.schema.ts, matchSchema).                         *)
(***************************************************************************)
UnknownTeam == "Unknown"

RequestNames == TeamNames \cup {UnknownTeam}

Requests ==
    {r \in [yourTeam : RequestNames, oppositionTeam : RequestNames,
            matchOvers : 1..MaxMatchOvers, desiredPosition : 1..MaxPosition,
            tossResult : {"bat", "bowl"}, runsScored : (0..MaxRuns) \cup {HighRuns}] :
        r.yourTeam # r.oppositionTeam}

(***************************************************************************)
(* NRRService.calculateMatchImpact, one action per stage.                  *)
(***************************************************************************)
Thrown(message) == [kind |-> "error", message |-> message]

YourTeamAfterWin == AfterWin(teams[req.yourTeam])

\* sortedTeams
SortedTeams == SortTeams(Values(teams, order), TRUE)

\* currentPosition
CurrentPosition == PositionOf(SortedTeams, req.yourTeam)

\* the result object assembled around the search's answer
Result(answer) ==
    [kind |-> "result",
     mode |-> req.tossResult,
     answer |-> answer,
     currentPosition |-> CurrentPosition,
     desiredPosition |-> req.desiredPosition,
     requiredNRR |-> nrrRange.minNRR,
     maxAllowedNRR |-> nrrRange.maxNRR,
     teamAtDesiredPosition |-> SortedTeams[req.desiredPosition].name,
     positionAnalysis |-> positionAnalysis]

\* calculateMatchImpact(data) as one function of the request, on a snapshot that
\* getInitialData has just returned
calculateMatchImpact(data) ==
    IF data.yourTeam \notin TeamNames \/ data.oppositionTeam \notin TeamNames
    THEN Thrown("Invalid team names.")
    ELSE IF data.desiredPosition < 1 \/ data.desiredPosition > Len(TeamOrder)
    THEN Thrown("Desired position must be between 1 and 5.")
    ELSE
    LET fresh == getInitialData
        yourTeamAfterWin == AfterWin(fresh[data.yourTeam])
        sortedTeams == SortTeams(Values(fresh, TeamOrder), TRUE)
        analysis == analyzePositionFeasibility(yourTeamAfterWin, fresh, TeamOrder,
                        data.desiredPosition, data.yourTeam, data.oppositionTeam)
        range == calculateRequiredNRRRange(yourTeamAfterWin, fresh, TeamOrder,
                     data.desiredPosition, data.yourTeam, data.oppositionTeam)
        answer == IF data.tossResult = "bat"
                  THEN computeRestrictOpponentRuns(fresh[data.yourTeam], data.matchOvers,
                           data.runsScored, range.minNRR, range.maxNRR)
                  ELSE computeChaseOversToBeatNRR(fresh[data.yourTeam], data.matchOvers,
                           data.runsScored, range.minNRR, range.maxNRR)
    IN  IF ~analysis.achievable THEN Thrown(analysis.reason)
        ELSE IF range.status # "ok" THEN Thrown(range.status)
        ELSE IF data.tossResult = "bowl" /\ answer.threw THEN Thrown(answer.error)
        ELSE [kind |-> "result",
              mode |-> data.tossResult,
              answer |-> answer,
              currentPosition |-> PositionOf(sortedTeams, data.yourTeam),
              desiredPosition |-> data.desiredPosition,
              requiredNRR |-> range.minNRR,
              maxAllowedNRR |-> range.maxNRR,
              teamAtDesiredPosition |-> sortedTeams[data.desiredPosition].name,
              positionAnalysis |-> analysis]

\* a request served on the standings the previous requests left behind, with the
\* winner's post-win record written into them
ReceiveOnSharedStandings ==
    /\ pc = "idle"
    /\ \E r \in Requests :
        /\ req' = r
        /\ teams' = IF r.yourTeam \in TeamNames
                    THEN [teams EXCEPT ![r.yourTeam] = AfterWin(@)]
                    ELSE teams
        /\ order' = order
        /\ steps' = <<>>
        /\ IF r.yourTeam \notin TeamNames \/ r.oppositionTeam \notin TeamNames
           THEN outcome' = Thrown("Invalid team names.") /\ pc' = "done"
           ELSE IF r.desiredPosition < 1 \/ r.desiredPosition > Len(TeamOrder)
           THEN outcome' = Thrown("Desired position must be between 1 and 5.") /\ pc' = "done"
           ELSE outcome' = NoValue /\ pc' = "feasibility"
    /\ UNCHANGED <<positionAnalysis, nrrRange, call, ret>>

\* the validated body arrives; the snapshot is loaded and the teams looked up
Receive ==
    /\ pc = "idle"
    /\ \E r \in Requests :
        /\ req' = r
        /\ teams' = getInitialData
        /\ order' = TeamOrder
        /\ steps' = <<>>
        /\ IF r.yourTeam \notin TeamNames \/ r.oppositionTeam \notin TeamNames
           THEN outcome' = Thrown("Invalid team names.") /\ pc' = "done"
           ELSE IF r.desiredPosition < 1 \/ r.desiredPosition > Len(TeamOrder)
           THEN outcome' = Thrown("Desired position must be between 1 and 5.") /\ pc' = "done"
           ELSE outcome' = NoValue /\ pc' = "feasibility"
    /\ UNCHANGED <<positionAnalysis, nrrRange, call, ret>>

\* a stage that goes on to the bracket whatever the analysis says
FeasibilityNoThrow ==
    /\ pc = "feasibility"
    /\ positionAnalysis' = analyzePositionFeasibility(YourTeamAfterWin, teams, order,
                               req.desiredPosition, req.yourTeam, req.oppositionTeam)
    /\ steps' = Append(steps, "analyzePositionFeasibility")
    /\ pc' = "bracket"
    /\ UNCHANGED <<teams, order, req, nrrRange, outcome, call, ret>>

\* a stage that writes the post-match records into the loaded standings
FeasibilityInPlace ==
    /\ pc = "feasibility"
    /\ LET analysis == analyzePositionFeasibility(YourTeamAfterWin, teams, order,
                           req.desiredPosition, req.yourTeam, req.oppositionTeam)
       IN  /\ positionAnalysis' = analysis
           /\ steps' = Append(steps, "analyzePositionFeasibility")
           /\ teams' = [teams EXCEPT ![req.yourTeam] = YourTeamAfterWin,
                                     ![req.oppositionTeam] = AfterLoss(@)]
           /\ IF analysis.achievable
              THEN outcome' = outcome /\ pc' = "bracket"
              ELSE outcome' = Thrown(analysis.reason) /\ pc' = "done"
    /\ UNCHANGED <<order, req, nrrRange, call, ret>>

Feasibility ==
    /\ pc = "feasibility"
    /\ LET analysis == analyzePositionFeasibility(YourTeamAfterWin, teams, order,
                           req.desiredPosition, req.yourTeam, req.oppositionTeam)
       IN  /\ positionAnalysis' = analysis
           /\ steps' = Append(steps, "analyzePositionFeasibility")
           /\ IF analysis.achievable
              THEN outcome' = outcome /\ pc' = "bracket"
              ELSE outcome' = Thrown(analysis.reason) /\ pc' = "done"
    /\ UNCHANGED <<teams, order, req, nrrRange, call, ret>>

Bracket ==
    /\ pc = "bracket"
    /\ LET range == calculateRequiredNRRRange(YourTeamAfterWin, teams, order,
                        req.desiredPosition, req.yourTeam, req.oppositionTeam)
       IN  /\ nrrRange' = range
           /\ steps' = Append(steps, "calculateRequiredNRRRange")
           /\ IF range.status = "ok"
              THEN outcome' = outcome /\ pc' = "search"
              ELSE outcome' = Thrown(range.status) /\ pc' = "done"
    /\ UNCHANGED <<teams, order, req, positionAnalysis, call, ret>>

SearchBat ==
    /\ pc = "search"
    /\ req.tossResult = "bat"
    /\ outcome' = Result(computeRestrictOpponentRuns(teams[req.yourTeam], req.matchOvers,
                             req.runsScored, nrrRange.minNRR, nrrRange.maxNRR))
    /\ steps' = Append(steps, "computeRestrictOpponentRuns")
    /\ pc' = "done"
    /\ UNCHANGED <<teams, order, req, positionAnalysis, nrrRange, call, ret>>

SearchBowl ==
    /\ pc = "search"
    /\ req.tossResult = "bowl"
    /\ LET answer == computeChaseOversToBeatNRR(teams[req.yourTeam], req.matchOvers,
                         req.runsScored, nrrRange.minNRR, nrrRange.maxNRR)
       IN  outcome' = IF answer.threw THEN Thrown(answer.error) ELSE Result(answer)
    /\ steps' = Append(steps, "computeChaseOversToBeatNRR")
    /\ pc' = "done"
    /\ UNCHANGED <<teams, order, req, positionAnalysis, nrrRange, call, ret>>

\* controllers/nrr.controller.ts: the response is sent (200 with the result, 500
\* with the error message) and nothing of the request is kept
Respond ==
    /\ pc = "done"
    /\ pc' = "idle"
    /\ req' = NoValue
    /\ positionAnalysis' = NoValue
    /\ nrrRange' = NoValue
    /\ outcome' = NoValue
    /\ steps' = <<>>
    /\ UNCHANGED <<teams, order, call, ret>>

Init ==
    /\ pc = "idle"
    /\ teams = getInitialData
    /\ order = TeamOrder
    /\ req = NoValue
    /\ positionAnalysis = NoValue
    /\ nrrRange = NoValue
    /\ outcome = NoValue
    /\ steps = <<>>
    /\ call = NoValue
    /\ ret = NoValue

Next == Receive \/ Feasibility \/ Bracket \/ SearchBat \/ SearchBowl \/ Respond

Spec == Init /\ [][Next]_vars


(***************************************************************************)
(* Bounded leagues: analyzePositionFeasibility and                         *)
(* calculateRequiredNRRRange applied to standings other than the seeded    *)
(* snapshot.  Both read only name, points and nrr of the teams.            *)
(***************************************************************************)
LeagueOrder == <<CSK, RCB, DC, RR>>

LeagueNames == {LeagueOrder[i] : i \in 1..Len(LeagueOrder)}

\* a team of a bounded league: won wins (points = 2 * won) and cached nrr v
LeagueTeam(n, won, v) ==
    [getInitialData[n] EXCEPT !.won = won, !.matches = won + getInitialData[n].lost,
                              !.points = WinPoints * won, !.nrr = v]

\* the opposition of a bounded-league request: the first other team
FirstOther(you) ==
    LeagueOrder[CHOOSE i \in 1..Len(LeagueOrder) :
                    LeagueOrder[i] # you /\ \A j \in 1..(i - 1) : LeagueOrder[j] = you]

InitLeague ==
    /\ pc = "feasibility"
    /\ order = LeagueOrder
    /\ \E you \in LeagueNames, position \in 1..Len(LeagueOrder),
          won \in [LeagueNames -> 0..MaxWon], v \in [LeagueNames -> 0..MaxLeagueNrr] :
        /\ v[you] = 0            \* yourTeam's own nrr is read by neither function
        /\ teams = [n \in LeagueNames |-> LeagueTeam(n, won[n], v[n])]
        /\ req = [yourTeam |-> you, oppositionTeam |-> FirstOther(you), matchOvers |-> 1,
                  desiredPosition |-> position, tossResult |-> "bat", runsScored |-> 0]
    /\ positionAnalysis = NoValue
    /\ nrrRange = NoValue
    /\ outcome = NoValue
    /\ steps = <<>>
    /\ call = NoValue
    /\ ret = NoValue

NextLeague == Feasibility \/ Bracket

SpecLeague == InitLeague /\ [][NextLeague]_vars

(***************************************************************************)
(* Direct calls of the Run-Rate Engine on bounded inputs.                  *)
(***************************************************************************)
\* forRuns 1000 in 100.0 overs, againstRuns 900 in 100.0 overs
ScenarioTeam ==
    [name |-> "Scenario", matches |-> 0, won |-> 0, lost |-> 0, nrr |-> 1000,
     forRuns |-> 1000, forOvers |-> Overs(100, 0),
     againstRuns |-> 900, againstOvers |-> Overs(100, 0), points |-> 0]

\* a team that has not played yet
FreshTeam ==
    [name |-> "Fresh", matches |-> 0, won |-> 0, lost |-> 0, nrr |-> 0,
     forRuns |-> 0, forOvers |-> Overs(0, 0),
     againstRuns |-> 0, againstOvers |-> Overs(0, 0), points |-> 0]

EngineTeams == {getInitialData[n] : n \in TeamNames} \cup {ScenarioTeam, FreshTeam}

DeltaRuns == {10 * k : k \in 0..MaxDeltaRuns}

\* overs deltas, in sixths of an over
DeltaOvers ==
    {convertOversToDecimal(5 * k, 0) : k \in -1..MaxDeltaOvers}
        \cup {convertOversToDecimal(LongMatchOvers, 0)}

InitEngine ==
    /\ pc = "engine"
    /\ teams = getInitialData
    /\ order = TeamOrder
    /\ req = NoValue
    /\ positionAnalysis = NoValue
    /\ nrrRange = NoValue
    /\ outcome = NoValue
    /\ steps = <<>>
    /\ call \in [team : EngineTeams, newForRuns : DeltaRuns, newForOvers : DeltaOvers,
                 newAgainstRuns : DeltaRuns, newAgainstOvers : DeltaOvers]
    /\ ret = NoValue

EngineCall ==
    /\ pc = "engine"
    /\ ret' = calculateRevisedNRR(call.team, call.newForRuns, call.newForOvers,
                                  call.newAgainstRuns, call.newAgainstOvers)
    /\ pc' = "returned"
    /\ UNCHANGED <<teams, order, req, positionAnalysis, nrrRange, outcome, steps, call>>

NextEngine == EngineCall

SpecEngine == InitEngine /\ [][NextEngine]_vars

(***************************************************************************)
(* Direct calls of the overs conversions on bounded ball counts.           *)
(***************************************************************************)
InitOvers ==
    /\ pc = "overs"
    /\ teams = getInitialData
    /\ order = TeamOrder
    /\ req = NoValue
    /\ positionAnalysis = NoValue
    /\ nrrRange = NoValue
    /\ outcome = NoValue
    /\ steps = <<>>
    /\ call \in [balls : 0..MaxBalls]
    /\ ret = NoValue

OversCall ==
    /\ pc = "overs"
    /\ ret' = [decimal |-> ballsToOversDecimal(call.balls),
               display |-> ballsToOversDisplay(call.balls),
               passed |-> ChaseOvers(call.balls)]
    /\ pc' = "returned"
    /\ UNCHANGED <<teams, order, req, positionAnalysis, nrrRange, outcome, steps, call>>

NextOvers == OversCall

SpecOvers == InitOvers /\ [][NextOvers]_vars

(***************************************************************************)
(* League position, stated independently of the solver: the Standings      *)
(* Ranker's order, points descending then NRR descending.                  *)
(***************************************************************************)
OtherNames == DOMAIN teams \ {req.yourTeam}

PostWinPoints == teams[req.yourTeam].points + WinPoints

\* the other teams ranked above yourTeam when it holds PostWinPoints and nrr v
RankedAbove(v) ==
    {n \in OtherNames :
        \/ teams[n].points > PostWinPoints
        \/ teams[n].points = PostWinPoints /\ teams[n].nrr > v}

\* the other teams level with it on both keys
RankedLevel(v) ==
    {n \in OtherNames : teams[n].points = PostWinPoints /\ teams[n].nrr = v}

\* yourTeam is placed at `position`, whatever the order of equal keys
RanksExactly(v, position) ==
    /\ RankedLevel(v) = {}
    /\ Cardinality(RankedAbove(v)) + 1 = position

\* the NRR values probed
ProbeNrr ==
    UNION {(teams[n].nrr - ProbeMargin)..(teams[n].nrr + ProbeMargin) : n \in DOMAIN teams}
        \cup (-ProbeMargin..ProbeMargin)

BracketReturned == nrrRange # NoValue /\ nrrRange.status = "ok"

(***************************************************************************)
(* C1. Bracket sufficiency: whenever the solver returns (minNRR, maxNRR)   *)
(* for a request that passed the feasibility check, every NRR value v with *)
(* minNRR <= v and (maxNRR unbounded or v <= maxNRR) places yourTeam, with *)
(* its post-win points and nrr v, at exactly desiredPosition.              *)
(***************************************************************************)
C1_BracketSufficient ==
    BracketReturned =>
        \A v \in ProbeNrr :
            InBracket(v, nrrRange.minNRR, nrrRange.maxNRR)
                => RanksExactly(v, req.desiredPosition)

\* a bounded bracket between two same-points teams, with a probed value inside
C1_Witness ==
    /\ BracketReturned
    /\ nrrRange.maxNRR # Unbounded
    /\ Cardinality({n \in OtherNames : teams[n].points = PostWinPoints}) >= 2
    /\ \E v \in ProbeNrr : InBracket(v, nrrRange.minNRR, nrrRange.maxNRR)

(***************************************************************************)
(* C2. Bracket necessity: whenever the solver returns (minNRR, maxNRR),    *)
(* every NRR value v, different from every other team's NRR, that would    *)
(* rank yourTeam exactly at desiredPosition lies inside the bracket; and   *)
(* the solver never throws 'Required NRR range is invalid' when such a v   *)
(* exists.                                                                 *)
(***************************************************************************)
C2_BracketNecessary ==
    LET qualifying == {v \in ProbeNrr :
                          /\ \A n \in OtherNames : teams[n].nrr # v
                          /\ RanksExactly(v, req.desiredPosition)}
    IN  /\ BracketReturned =>
               \A v \in qualifying : InBracket(v, nrrRange.minNRR, nrrRange.maxNRR)
        /\ (nrrRange # NoValue /\ nrrRange.status = "Required NRR range is invalid")
               => qualifying = {}

(***************************************************************************)
(* C3. Feasibility: with teamsAbove the number of other teams with         *)
(* strictly more points than yourTeam.points + 2 and teamsLevel the number *)
(* with exactly that many, achievable is true if and only if               *)
(* teamsAbove + 1 <= desiredPosition <= teamsAbove + teamsLevel + 1.       *)
(***************************************************************************)
C3_FeasibilityIff ==
    LET teamsAbove == Cardinality({n \in OtherNames : teams[n].points > PostWinPoints})
        teamsLevel == Cardinality({n \in OtherNames : teams[n].points = PostWinPoints})
    IN  positionAnalysis # NoValue =>
            (positionAnalysis.achievable <=>
                /\ teamsAbove + 1 <= req.desiredPosition
                /\ req.desiredPosition <= teamsAbove + teamsLevel + 1)

\* an achievable position strictly inside the interval, with teams above and level
C3_Witness ==
    /\ positionAnalysis # NoValue
    /\ positionAnalysis.achievable
    /\ Cardinality({n \in OtherNames : teams[n].points > PostWinPoints}) >= 1
    /\ Cardinality({n \in OtherNames : teams[n].points = PostWinPoints}) >= 2
    /\ req.desiredPosition
           = Cardinality({n \in OtherNames : teams[n].points > PostWinPoints}) + 2

(***************************************************************************)
(* C4. When the feasibility analysis reports achievable = false,           *)
(* calculateMatchImpact fails with an error whose reason names the         *)
(* violated bound, neither the bracket solver nor the outcome search is    *)
(* executed for that request, and no result object is returned.            *)
(***************************************************************************)
C4_InfeasibleStops ==
    (positionAnalysis # NoValue /\ ~positionAnalysis.achievable) =>
        /\ pc = "done"
        /\ outcome.kind = "error"
        /\ outcome.message =
               IF req.desiredPosition
                      < Cardinality({n \in OtherNames : teams[n].points > PostWinPoints}) + 1
               THEN "best possible position" ELSE "worst possible position"
        /\ steps = <<"analyzePositionFeasibility">>
        /\ nrrRange = NoValue

\* an infeasible request has been answered with the error
C4_Witness ==
    /\ pc = "done"
    /\ positionAnalysis # NoValue
    /\ ~positionAnalysis.achievable
    /\ outcome.message = "best possible position"

(***************************************************************************)
(* The answered request, by mode.                                          *)
(***************************************************************************)
Answered(mode) ==
    pc = "done" /\ outcome.kind = "result" /\ outcome.mode = mode

YourTeam == teams[req.yourTeam]

MatchOvers6 == convertOversToDecimal(req.matchOvers, 0)

\* the opponent scores whose Run-Rate Engine NRR lies inside the returned bracket
ScoresInBracket ==
    {r \in 0..(req.runsScored - 1) :
        AcceptsByEngine(YourTeam, req.matchOvers, req.runsScored, r,
                        nrrRange.minNRR, nrrRange.maxNRR)}

\* ceil((runsScored + 1) / 6)
MinBallsRequired == (req.runsScored + 1 + BallsPerOver - 1) \div BallsPerOver

\* the ball counts whose Run-Rate Engine NRR lies inside the returned bracket
BallsInBracket ==
    {b \in MinBallsRequired..MatchOvers6 :
        InBracket(ChaseNRR(YourTeam, req.matchOvers, req.runsScored, b),
                  nrrRange.minNRR, nrrRange.maxNRR)}

TieInBracket ==
    InBracket(RevisedNRR(YourTeam, req.runsScored, MatchOvers6, req.runsScored, MatchOvers6),
              nrrRange.minNRR, nrrRange.maxNRR)

(***************************************************************************)
(* C5. Batting first, exactness: when the search returns impossible =      *)
(* false, an opponent score r in [0, runsScored - 1] has its recomputed    *)
(* NRR inside the bracket if and only if                                   *)
(* restrictRunsMin <= r <= restrictRunsMax.                                *)
(***************************************************************************)
C5_RestrictRangeExact ==
    (Answered("bat") /\ ~outcome.answer.impossible) =>
        \A r \in 0..(req.runsScored - 1) :
            r \in ScoresInBracket
                <=> (outcome.answer.restrictRunsMin <= r /\ r <= outcome.answer.restrictRunsMax)

(***************************************************************************)
(* C6. Batting first, impossibility: the search returns impossible = true  *)
(* if and only if no opponent score in [0, runsScored - 1] has recomputed  *)
(* NRR inside the bracket; then revisedNRRMax is the engine's value for an *)
(* opponent score of 0 and revisedNRRMin its value for runsScored - 1.     *)
(***************************************************************************)
C6_RestrictImpossibleIff ==
    Answered("bat") =>
        /\ outcome.answer.impossible <=> ScoresInBracket = {}
        /\ outcome.answer.impossible =>
               /\ outcome.answer.revisedNRRMax
                      = RevisedNRR(YourTeam, req.runsScored, MatchOvers6, 0, MatchOvers6)
               /\ outcome.answer.revisedNRRMin
                      = RevisedNRR(YourTeam, req.runsScored, MatchOvers6,
                                   req.runsScored - 1, MatchOvers6)

CallNum ==
    (call.team.forRuns + call.newForRuns)
        * (OversDecimal(call.team.againstOvers) + call.newAgainstOvers)
    - (call.team.againstRuns + call.newAgainstRuns)
        * (OversDecimal(call.team.forOvers) + call.newForOvers)

CallDen ==
    (OversDecimal(call.team.forOvers) + call.newForOvers)
        * (OversDecimal(call.team.againstOvers) + call.newAgainstOvers)

\* the whole thousandths in the magnitude of the difference, and what is left over
CallMagnitude ==
    Ratio(IF CallNum >= 0 THEN CallNum ELSE -CallNum, CallDen, <<BallsPerOver>> \o MilliStages)

ScenarioCall ==
    [team |-> ScenarioTeam, newForRuns |-> 50, newForOvers |-> convertOversToDecimal(10, 0),
     newAgainstRuns |-> 40, newAgainstOvers |-> convertOversToDecimal(10, 0)]

C10_ThrowsIffNoOvers ==
    ret # NoValue =>
        LET totalForOvers ==
                BallsPerOver * call.team.forOvers.overs + call.team.forOvers.balls
                    + call.newForOvers
            totalAgainstOvers ==
                BallsPerOver * call.team.againstOvers.overs + call.team.againstOvers.balls
                    + call.newAgainstOvers
        IN  /\ ret.threw <=> (totalForOvers <= 0 \/ totalAgainstOvers <= 0)
            /\ ret.threw => "nrr" \notin DOMAIN ret
            /\ ~ret.threw => ret.nrr \in Int

\* the call failed on a total of exactly zero overs
C10_Witness ==
    /\ ret # NoValue
    /\ ret.threw
    /\ OversDecimal(call.team.forOvers) + call.newForOvers = 0
    /\ OversDecimal(call.team.againstOvers) + call.newAgainstOvers > 0

(***************************************************************************)
(* C11. Monotonicity: for fixed for-runs, for-overs and against-overs      *)
(* deltas and any two conceded-runs values r1 < r2, the three-decimal      *)
(* result of calculateRevisedNRR for r1 is strictly greater than its       *)
(* result for r2.                                                          *)
(***************************************************************************)
\* the conceded-runs values compared with the call's own
MoreConceded == (call.newAgainstRuns + 1)..(call.newAgainstRuns + MaxDeltaRuns)

\* the engine's value for the call with r conceded runs instead
WithConceded(r) ==
    RevisedNRR(call.team, call.newForRuns, call.newForOvers, r, call.newAgainstOvers)

CallAgainstBalls == OversDecimal(call.team.againstOvers) + call.newAgainstOvers

C11_StrictlyDecreasing ==
    (ret # NoValue /\ ~ret.threw) =>
        \A r2 \in MoreConceded : ret.nrr > WithConceded(r2)

\* C11 as amended: the result never increases with the conceded runs, and it
\* strictly decreases whenever the two quotients are more than 0.002 apart,
\* that is (r2 - r1) / totalAgainstOvers > 0.002
C11_NonIncreasing ==
    (ret # NoValue /\ ~ret.threw) =>
        \A r2 \in MoreConceded :
            /\ ret.nrr >= WithConceded(r2)
            /\ 3 * Milli * (r2 - call.newAgainstRuns) > CallAgainstBalls
                   => ret.nrr > WithConceded(r2)

\* one more conceded run leaves the three-decimal result where it was
C11_Witness ==
    /\ ret # NoValue
    /\ ~ret.threw
    /\ ret.nrr = WithConceded(call.newAgainstRuns + 1)
    /\ ret.nrr > WithConceded(call.newAgainstRuns + MaxDeltaRuns)

(***************************************************************************)
(* C12. The bracket solver fails with 'Required NRR range is invalid'      *)
(* whenever the derived minRequiredNRR >= maxAllowedNRR and maxAllowedNRR  *)
(* is bounded: every bracket it returns has minNRR < maxNRR or an          *)
(* unbounded maxNRR, and after such a failure calculateMatchImpact ends    *)
(* with that error, returns no result and runs no outcome search.          *)
(***************************************************************************)
InvalidRangeThrown ==
    nrrRange # NoValue /\ nrrRange.status = "Required NRR range is invalid"

C12_InvalidRangeFails ==
    /\ BracketReturned =>
           (nrrRange.minNRR < nrrRange.maxNRR \/ nrrRange.maxNRR = Unbounded)
    /\ InvalidRangeThrown =>
           /\ pc = "done"
           /\ outcome = Thrown("Required NRR range is invalid")
           /\ steps = <<"analyzePositionFeasibility", "calculateRequiredNRRRange">>

\* a feasible request whose bracket came out empty has been answered with the error
C12_Witness ==
    /\ InvalidRangeThrown
    /\ positionAnalysis.achievable
    /\ outcome.kind = "error"

(***************************************************************************)
(* C13. The cached nrr of every team of the starting standings equals the  *)
(* NRR the Run-Rate Engine recomputes from the team's four cumulative      *)
(* fields with zero deltas.                                                *)
(***************************************************************************)
C13_CachedNrrRecomputable ==
    pc # "idle" =>
        \A n \in DOMAIN teams : teams[n].nrr = RevisedNRR(teams[n], 0, 0, 0, 0)

(***************************************************************************)
(* C14. An unattainable outcome is a normal result, not a failure: every   *)
(* request that passes team lookup, the position-range check, the          *)
(* feasibility check and bracket validation ends with a result object,     *)
(* whose answer carries impossible = true when no opponent score, or no    *)
(* ball count and no tie, satisfies the bracket, and impossible = false    *)
(* otherwise.                                                              *)
(***************************************************************************)
C14_UnattainableIsResult ==
    (pc = "done" /\ BracketReturned) =>
        /\ outcome.kind = "result"
        /\ outcome.mode = "bat" => (outcome.answer.impossible <=> ScoresInBracket = {})
        /\ outcome.mode = "bowl" =>
               (outcome.answer.impossible <=> (BallsInBracket = {} /\ ~TieInBracket))

(***************************************************************************)
(* C15. Determinism: two invocations of calculateMatchImpact with          *)
(* identical request fields, in any order and with any other requests      *)
(* executed in between, produce identical outcomes: the outcome of every   *)
(* answered request, whatever was served before it, is the one outcome     *)
(* that its fields produce on a freshly loaded snapshot.                   *)
(***************************************************************************)
C15_Deterministic ==
    pc = "done" => outcome = calculateMatchImpact(req)

\* a request answered with a result, the one its fields give on a fresh snapshot
C15_Witness ==
    /\ pc = "done"
    /\ outcome.kind = "result"
    /\ outcome.answer.impossible = FALSE
    /\ outcome = calculateMatchImpact(req)
    /\ teams = getInitialData

C17_RoundTrip ==
    (pc = "returned" /\ ret # NoValue /\ "decimal" \in DOMAIN ret) =>
        ret.decimal = call.balls

\* a ball count that is neither a whole number of overs nor less than one over
C17_Witness ==
    /\ pc = "returned"
    /\ "decimal" \in DOMAIN ret
    /\ call.balls > BallsPerOver
    /\ call.balls % BallsPerOver = BallsPerOver - 1
    /\ ret.decimal = call.balls

(***************************************************************************)
(* C18. Feasibility ordering: for every league state and every choice of   *)
(* yourTeam and opponentTeam, the bestPossiblePosition the analysis        *)
(* computes is less than or equal to its worstPossiblePosition, and both   *)
(* lie in [1, teamCount].                                                  *)
(***************************************************************************)
\* the two positions the analysis computed for the request at hand
AnalysedTeams ==
    TeamsAfterYourWin(YourTeamAfterWin, teams, order, req.yourTeam, req.oppositionTeam)

AnalysedBest == BestPossiblePosition(AnalysedTeams, YourTeamAfterWin)

AnalysedWorst == WorstPossiblePosition(AnalysedTeams, YourTeamAfterWin, req.yourTeam)

C18_FeasibilityOrdering ==
    positionAnalysis # NoValue =>
        /\ 1 <= AnalysedBest
        /\ AnalysedBest <= AnalysedWorst
        /\ AnalysedWorst <= Len(order)
        /\ positionAnalysis.reason = "best possible position"
               => positionAnalysis.bound = AnalysedBest
        /\ positionAnalysis.reason = "worst possible position"
               => positionAnalysis.bound = AnalysedWorst

\* every other team is level with yourTeam: the two positions are the two ends
C18_Witness ==
    /\ positionAnalysis # NoValue
    /\ AnalysedBest = 1
    /\ AnalysedWorst = Len(order)

(***************************************************************************)
(* C19. Single source of truth: the NRR value the batting-first search     *)
(* tests against the bracket for a candidate opponent score is the value   *)
(* calculateRevisedNRR returns for that candidate, so a candidate is       *)
(* accepted if and only if the engine's value lies in the bracket.         *)
(***************************************************************************)
C19_SearchTestsEngineValue ==
    (pc = "done" /\ BracketReturned /\ req.tossResult = "bat") =>
        \A r \in 0..(req.runsScored - 1) :
            Accepts(YourTeam, req.matchOvers, req.runsScored, r,
                    nrrRange.minNRR, nrrRange.maxNRR)
                <=> r \in ScoresInBracket

(***************************************************************************)
(* C20. Fallback upper bound: whenever the same-points rule set no upper   *)
(* bound and desiredPosition > 1, the returned maxAllowedNRR is the NRR of *)
(* the team at index desiredPosition - 2 of the other teams sorted by      *)
(* points then NRR, minus 0.001, for every value of that NRR, 0.001        *)
(* included; it is never left unbounded.                                   *)
(***************************************************************************)
\* (desiredPosition - 1) - (number of other teams with strictly more points)
LevelAbove ==
    (req.desiredPosition - 1)
        - Cardinality({n \in OtherNames : teams[n].points > PostWinPoints})

\* the same-points rule sets an upper bound only for LevelAbove in 1..|samePoints|
NoSamePointsUpperBound ==
    ~(/\ 1 <= LevelAbove
      /\ LevelAbove <= Cardinality({n \in OtherNames : teams[n].points = PostWinPoints}))

TeamAboveSlot ==
    SortedOtherTeams(teams, order, req.yourTeam, req.oppositionTeam)[req.desiredPosition - 1]

C20_FallbackUpperBound ==
    (BracketReturned /\ NoSamePointsUpperBound /\ req.desiredPosition > 1) =>
        nrrRange.maxNRR = TeamAboveSlot.nrr - Epsilon

(***************************************************************************)
(* C21. Bracket lower bound: with samePoints the other teams whose points  *)
(* equal yourTeam's post-win points, ordered by NRR descending, and        *)
(* levelAbove = (desiredPosition - 1) - (number of other teams with        *)
(* strictly more points), the returned minRequiredNRR is                   *)
(* samePoints[levelAbove].nrr + 0.001 when levelAbove < |samePoints|;      *)
(* otherwise (samePoints empty included) it is the highest NRR among the   *)
(* teams with strictly fewer points + 0.001, or 0.001 when there is none.  *)
(***************************************************************************)
SamePointsNames == {n \in OtherNames : teams[n].points = PostWinPoints}

FewerPointsNames == {n \in OtherNames : teams[n].points < PostWinPoints}

\* the NRR at index k (from 0) of the same-points teams in NRR-descending order:
\* at most k of them have a greater NRR, more than k have one at least as great
SamePointsNrrAt(k) ==
    CHOOSE v \in {teams[n].nrr : n \in SamePointsNames} :
        /\ Cardinality({n \in SamePointsNames : teams[n].nrr > v}) <= k
        /\ Cardinality({n \in SamePointsNames : teams[n].nrr >= v}) > k

HighestNrrAmongFewer ==
    CHOOSE v \in {teams[n].nrr : n \in FewerPointsNames} :
        \A n \in FewerPointsNames : teams[n].nrr <= v

C21_BracketLowerBound ==
    BracketReturned =>
        nrrRange.minNRR =
            IF LevelAbove < Cardinality(SamePointsNames)
            THEN SamePointsNrrAt(LevelAbove) + Epsilon
            ELSE IF FewerPointsNames # {} THEN HighestNrrAmongFewer + Epsilon
            ELSE Epsilon

\* no same-points team is left to stay below yourTeam, and the lower bound comes
\* from a team with fewer points and a positive NRR
C21_Witness ==
    /\ BracketReturned
    /\ LevelAbove >= Cardinality(SamePointsNames)
    /\ FewerPointsNames # {}
    /\ HighestNrrAmongFewer > 0
    /\ nrrRange.minNRR = HighestNrrAmongFewer + Epsilon

(***************************************************************************)
(* C22. Bracket upper bound: when desiredPosition > 1 and levelAbove lies  *)
(* in [1, |samePoints|], the returned maxAllowedNRR equals                 *)
(* samePoints[levelAbove - 1].nrr - 0.001, the lowest-NRR same-points team *)
(* that must stay above yourTeam; when desiredPosition = 1 the returned    *)
(* maxAllowedNRR is always the unbounded sentinel.                         *)
(***************************************************************************)
C22_BracketUpperBound ==
    BracketReturned =>
        /\ (/\ req.desiredPosition > 1
            /\ 1 <= LevelAbove
            /\ LevelAbove <= Cardinality(SamePointsNames))
               => nrrRange.maxNRR = SamePointsNrrAt(LevelAbove - 1) - Epsilon
        /\ req.desiredPosition = 1 => nrrRange.maxNRR = Unbounded

\* two same-points teams with different NRRs are to stay above yourTeam, and the
\* upper bound comes from the lower of them
C22_Witness ==
    /\ BracketReturned
    /\ req.desiredPosition > 1
    /\ LevelAbove >= 2
    /\ LevelAbove <= Cardinality(SamePointsNames)
    /\ SamePointsNrrAt(LevelAbove - 1) < SamePointsNrrAt(0)
    /\ nrrRange.maxNRR = SamePointsNrrAt(LevelAbove - 1) - Epsilon

(***************************************************************************)
(* C23. Mode B clamp: in every answer of computeChaseOversToBeatNRR,       *)
(* impossible or not, the ball counts behind the reported minOvers and     *)
(* maxOvers both lie in [minBallsRequired, matchOvers * 6], where          *)
(* minBallsRequired = ceil((runsScored + 1) / 6).                          *)
(***************************************************************************)
\* the ball counts behind the two reported overs numerals
ReportedMinBalls == OversDecimal(outcome.answer.minOvers)

ReportedMaxBalls == OversDecimal(outcome.answer.maxOvers)

C23_ChaseClamp ==
    Answered("bowl") =>
        /\ MinBallsRequired <= ReportedMinBalls /\ ReportedMinBalls <= MatchOvers6
        /\ MinBallsRequired <= ReportedMaxBalls /\ ReportedMaxBalls <= MatchOvers6

(***************************************************************************)
(* C24. Tie reporting in Mode B: the answer states that a tie (scoring     *)
(* exactly runsScored in the full matchOvers) qualifies if and only if     *)
(* calculateRevisedNRR(yourTeam, runsScored, matchOvers, runsScored,       *)
(* matchOvers) is >= minRequiredNRR and (maxAllowedNRR unbounded or        *)
(* <= maxAllowedNRR); and whether the tie qualifies never changes the      *)
(* reported minOvers / maxOvers of winning finishes: they are what the     *)
(* search reports when the tie is left out of it.                          *)
(***************************************************************************)
\* the clamped algebraic window of the request at hand
AlgebraicMinBalls ==
    Max2(IF nrrRange.maxNRR = Unbounded THEN 0
         ELSE CeilOf(AlgebraicBalls(YourTeam, req.matchOvers, req.runsScored, nrrRange.maxNRR)),
         MinBallsRequired)

AlgebraicMaxBalls ==
    Min2(FloorOf(AlgebraicBalls(YourTeam, req.matchOvers, req.runsScored, nrrRange.minNRR)),
         MatchOvers6)

\* with the tie left out an empty window is reported as the whole feasible range;
\* a window that is not empty is scanned whatever the tie does
C24_TieReporting ==
    Answered("bowl") =>
        /\ outcome.answer.tieQualifies <=> TieInBracket
        /\ AlgebraicMinBalls > AlgebraicMaxBalls =>
               /\ outcome.answer.minOvers = ballsToOversDisplay(MinBallsRequired)
               /\ outcome.answer.maxOvers = ballsToOversDisplay(MatchOvers6)

(***************************************************************************)
(* C25. Overs representation: for every integer ball count b >= 0,         *)
(* ballsToOversDisplay and ballsToOversDecimal decompose b into            *)
(* (overs, balls) with overs = floor(b / 6) and balls = b mod 6 in [0, 5]  *)
(* (balls never reaches 6, it carries into overs); the display value is    *)
(* the digit pair overs.balls (82 balls -> 13.4) while the decimal value   *)
(* is overs + balls / 6 (82 balls -> 13.6667), and only the decimal value  *)
(* is ever passed to calculateRevisedNRR.                                  *)
(***************************************************************************)
\* an overs value held in sixths, rounded to four decimals and scaled by 10000
FourDecimals(sixths) == (2 * 10000 * sixths + BallsPerOver) \div (2 * BallsPerOver)

InProgress == pc \in {"feasibility", "bracket", "search"}

\* the stages a request still has before it: a variant of calculateMatchImpact
StagesLeft ==
    CASE pc = "feasibility" -> Len(<<"feasibility", "bracket", "search">>)
      [] pc = "bracket" -> Len(<<"bracket", "search">>)
      [] pc = "search" -> Len(<<"search">>)
      [] OTHER -> 0

C26_LoopBounds ==
    /\ pc = "done" => outcome.kind \in {"result", "error"}
    /\ Answered("bat") => outcome.answer.iterations <= req.runsScored
    /\ Answered("bowl") =>
           /\ outcome.answer.upTrips + outcome.answer.downTrips <= MatchOvers6 + 1
           \* every trip but a last, breaking one moves the loop's counter by one
           /\ ~outcome.answer.impossible =>
                  /\ ReportedMinBalls - AlgebraicMinBalls \in
                        {outcome.answer.upTrips - 1, outcome.answer.upTrips} \cap Nat
                  /\ AlgebraicMaxBalls - ReportedMaxBalls \in
                        {outcome.answer.downTrips - 1, outcome.answer.downTrips} \cap Nat

\* every step taken for a request in progress brings it strictly nearer to its
\* outcome, and the loops inside the steps are bounded
C26_Termination == [](C26_LoopBounds) /\ [][InProgress => StagesLeft' < StagesLeft]_vars

\* a batting-first answer whose loop has tried every opponent score below the
\* highest runsScored of the model
C26_Witness ==
    /\ Answered("bat")
    /\ req.runsScored = MaxRuns
    /\ outcome.answer.iterations = req.runsScored

(***************************************************************************)
(* C27. In every Mode B answer with impossible = false the reported window *)
(* is non-empty and valid: the ball count of minOvers is <= the ball count *)
(* of maxOvers, and the Run-Rate Engine NRR at each of the two boundary    *)
(* ball counts (runsScored + 1 for, runsScored against in matchOvers) lies *)
(* inside [minRequiredNRR, maxAllowedNRR]; also when the algebraic window  *)
(* is empty but the tie is in the bracket, and when the refinement scan    *)
(* finds no ball count in the bracket.                                     *)
(***************************************************************************)
C27_ChaseWindowValid ==
    (Answered("bowl") /\ ~outcome.answer.impossible) =>
        /\ ReportedMinBalls <= ReportedMaxBalls
        /\ InBracket(ChaseNRR(YourTeam, req.matchOvers, req.runsScored, ReportedMinBalls),
                     nrrRange.minNRR, nrrRange.maxNRR)
        /\ InBracket(ChaseNRR(YourTeam, req.matchOvers, req.runsScored, ReportedMaxBalls),
                     nrrRange.minNRR, nrrRange.maxNRR)

(***************************************************************************)
(* C28. In every Mode A answer (impossible or not, for every runsScored    *)
(* >= 0, 0 included) restrictRunsMin and restrictRunsMax are integers with *)
(* 0 <= restrictRunsMin <= restrictRunsMax <= runsScored - 1, and the      *)
(* Run-Rate Engine is never evaluated with a negative opponent score.      *)
(***************************************************************************)
C28_RestrictRangeBounds ==
    Answered("bat") =>
        /\ outcome.answer.restrictRunsMin \in Int
        /\ outcome.answer.restrictRunsMax \in Int
        /\ 0 <= outcome.answer.restrictRunsMin
        /\ outcome.answer.restrictRunsMin <= outcome.answer.restrictRunsMax
        /\ outcome.answer.restrictRunsMax <= req.runsScored - 1
        /\ \A opponentRuns \in outcome.answer.engineCalls : opponentRuns >= 0

(***************************************************************************)
(* C29. In every answer returned by either outcome search (Mode A or Mode  *)
(* B, impossible or not), revisedNRRMin <= revisedNRRMax.                  *)
(***************************************************************************)
C29_RevisedNrrOrdered ==
    (Answered("bat") \/ Answered("bowl")) =>
        outcome.answer.revisedNRRMin <= outcome.answer.revisedNRRMax

(***************************************************************************)
(* C30. In Mode B, when even six runs off every ball cannot reach the      *)
(* winning score within the match, that is                                 *)
(* ceil((runsScored + 1) / 6) > floor(matchOvers * 6),                     *)
(* computeChaseOversToBeatNRR throws a 'Cannot score' error instead of     *)
(* returning an answer with impossible = true; for every other validated   *)
(* input it returns an answer object.                                      *)
(***************************************************************************)
\* the chase has been called for the request at hand, and has ended
ChaseCalled ==
    /\ pc = "done"
    /\ Len(steps) > 0
    /\ steps[Len(steps)] = "computeChaseOversToBeatNRR"

====
